---- MODULE Spec2Model ----
(***************************************************************************)
(* Model of maxprotein.hh: filter_food_vector, greedy_max_protein and      *)
(* exhaustive_max_protein over a FoodVector.                               *)
(*                                                                         *)
(* A Food object is a record [id, kcal, protein_g].  `id` stands for the   *)
(* object's address (FoodVector holds shared_ptr<Food>): two Foods with    *)
(* equal fields are still different Records.  The description/amount       *)
(* strings and amount_g are read by no selector and are left out.          *)
(* Every loop of the source is modelled one iteration per step.            *)
(* int sums are exact integers: the Records are bounded (MaxKcal,          *)
(* MaxProtein), far from the width of int.                                 *)
(***************************************************************************)
EXTENDS Integers, Sequences, FiniteSets, TLC

\* ---------------------------------------------------------------- bounds
MaxN == 3          \* longest small FoodVector
MaxKcal == 1       \* largest kcal of a Food
MaxProtein == 1    \* largest protein_g of a Food
MaxBudget == 2     \* largest total_kcal passed to a selector
MaxLimit == 2      \* largest total_size passed to the filter
MaxExcess == 1     \* FoodVectors of size AssertLimit .. AssertLimit + MaxExcess

\* ------------------------------------------------------ program constants
AssertLimit == 64      \* assert(n < 64)
DoubleMantissa == 53   \* significand bits of the double `power`

\* ------------------------------------------------------------------ Food
\* Food's constructor; its asserts (kcal >= 0, protein_g >= 0) hold of every
\* Food built here.
Food(id, kcal, protein_g) == [id |-> id, kcal |-> kcal, protein_g |-> protein_g]

\* The Food(" ", " ", 0, 0, 0) allocated at the top of every iteration of the
\* greedy loop: a fresh object, so its address differs from every input's and
\* from every earlier iteration's (ids of inputs are >= 1).
Placeholder(iter) == Food(0 - (iter + 1), 0, 0)

FoodValues == { <<k, p>> : k \in 0..MaxKcal, p \in 0..MaxProtein }

\* Every FoodVector of n distinct Food objects.
FoodVectorsOfSize(n) ==
    { [i \in 1..n |-> Food(i, v[i][1], v[i][2])] : v \in [1..n -> FoodValues] }

SmallFoodVectors == UNION { FoodVectorsOfSize(n) : n \in 0..MaxN }

\* FoodVectors at and above the size the exhaustive search refuses.
LargeFoodVectors ==
    { [i \in 1..n |-> Food(i, 1, 1)] : n \in AssertLimit..(AssertLimit + MaxExcess) }

Budgets == (0 - 1)..MaxBudget
Limits == (0 - 1)..MaxLimit
MinKcals == (0 - 1)..1
MaxKcals == (MaxKcal - 1)..MaxKcal

Range(s) == { s[i] : i \in 1..Len(s) }

\* ------------------------------------------------------- sum_food_vector
RECURSIVE SumKcal(_)
SumKcal(fv) == IF fv = <<>> THEN 0 ELSE fv[1].kcal + SumKcal(Tail(fv))

RECURSIVE SumProtein(_)
SumProtein(fv) == IF fv = <<>> THEN 0 ELSE fv[1].protein_g + SumProtein(Tail(fv))

VARIABLES
    foods,       \* the FoodVector the functions are called on
    pc,          \* which function is running, or how the last one ended
    min_kcal, max_kcal, total_size,   \* filter_food_vector's arguments
    pos,         \* filter_food_vector: index of the next element of source
    total_kcal,  \* the selectors' budget argument
    todo,        \* greedy_max_protein: the working copy
    result,      \* filter_food_vector's and greedy_max_protein's result
    result_cal,  \* greedy_max_protein: calories accumulated
    iters,       \* greedy_max_protein: loop bodies executed so far (history)
    bits,        \* exhaustive_max_protein: the mask
    best         \* exhaustive_max_protein: best subset so far

vars == <<foods, pc, min_kcal, max_kcal, total_size, pos, total_kcal,
          todo, result, result_cal, iters, bits, best>>

filterVars == <<min_kcal, max_kcal, total_size, pos>>
greedyVars == <<todo, result_cal, iters>>
exhaustiveVars == <<bits, best>>

Init ==
    /\ foods \in SmallFoodVectors \cup LargeFoodVectors
    /\ pc = "idle"
    /\ min_kcal = 0 /\ max_kcal = 0 /\ total_size = 0 /\ pos = 1
    /\ total_kcal = 0
    /\ todo = <<>> /\ result = <<>> /\ result_cal = 0 /\ iters = 0
    /\ bits = 0 /\ best = <<>>

\* ---------------------------------------------------- filter_food_vector
\* result->size() != total_size compares a size_t with an int: the int is
\* converted to size_t, so a negative total_size becomes a value no vector
\* size reaches.
SizeDiffers(size, limit) == IF limit < 0 THEN TRUE ELSE size # limit

FilterKeepsGE(food, lo, hi, size, limit) ==
    food.kcal >= lo /\ food.kcal <= hi /\ SizeDiffers(size, limit)

FilterKeeps(food, lo, hi, size, limit) ==
    food.kcal > lo /\ food.kcal <= hi /\ SizeDiffers(size, limit)

CallFilter ==
    /\ pc = "idle"
    /\ \E lo \in MinKcals, hi \in MaxKcals, lim \in Limits :
          /\ min_kcal' = lo
          /\ max_kcal' = hi
          /\ total_size' = lim
    /\ pos' = 1
    /\ result' = <<>>
    /\ pc' = "filter"
    /\ UNCHANGED <<foods, total_kcal, greedyVars, exhaustiveVars>>

FilterStep ==
    /\ pc = "filter"
    /\ pos <= Len(foods)
    /\ result' = IF FilterKeeps(foods[pos], min_kcal, max_kcal, Len(result), total_size)
                 THEN Append(result, foods[pos])
                 ELSE result
    /\ pos' = pos + 1
    /\ UNCHANGED <<foods, pc, min_kcal, max_kcal, total_size, total_kcal,
                   greedyVars, exhaustiveVars>>

FilterReturn ==
    /\ pc = "filter"
    /\ pos > Len(foods)
    /\ pc' = "filter_done"
    /\ UNCHANGED <<foods, filterVars, total_kcal, result, greedyVars, exhaustiveVars>>

\* ---------------------------------------------------- greedy_max_protein
\* The test of the scan, written as its mistaken variant (>=) and as the code
\* has it (>).
HigherOrEqualProtein(food, f) == food.protein_g >= f.protein_g

HigherProtein(food, f) == food.protein_g > f.protein_g

\* for (auto& food : todo) { if (...) { f = food; index = counter; } counter++; }
\* from position `counter` (0-based) on; yields the final f and index.
RECURSIVE ScanFrom(_, _, _, _)
ScanFrom(fv, counter, f, index) ==
    IF counter >= Len(fv)
    THEN [f |-> f, index |-> index]
    ELSE IF HigherProtein(fv[counter + 1], f)
         THEN ScanFrom(fv, counter + 1, fv[counter + 1], counter)
         ELSE ScanFrom(fv, counter + 1, f, index)

\* index = 0; counter = 0; f = new Food(" "," ",0,0,0); then the scan.
Scan(fv, iter) == ScanFrom(fv, 0, Placeholder(iter), 0)

\* A range erase from `index` to the end, the mistaken variant of Erase.
EraseToEnd(fv, index) == SubSeq(fv, 1, index)

\* todo.erase(todo.begin() + index), index 0-based.
Erase(fv, index) == SubSeq(fv, 1, index) \o SubSeq(fv, index + 2, Len(fv))

\* The budget test without the calories already accumulated.
FitsAlone(cal, kcal, budget) == kcal <= budget

\* result_cal + f->kcal() <= total_kcal
Fits(cal, kcal, budget) == cal + kcal <= budget

CallGreedy ==
    /\ pc = "idle"
    /\ \E b \in Budgets : total_kcal' = b
    /\ todo' = foods
    /\ result' = <<>>
    /\ result_cal' = 0
    /\ iters' = 0
    /\ pc' = "greedy"
    /\ UNCHANGED <<foods, filterVars, exhaustiveVars>>

GreedyStep ==
    /\ pc = "greedy"
    /\ todo # <<>>
    /\ LET s == Scan(todo, iters)
       IN  /\ todo' = Erase(todo, s.index)
           /\ IF Fits(result_cal, s.f.kcal, total_kcal)
              THEN /\ result' = Append(result, s.f)
                   /\ result_cal' = result_cal + s.f.kcal
              ELSE UNCHANGED <<result, result_cal>>
    /\ iters' = iters + 1
    /\ UNCHANGED <<foods, pc, filterVars, total_kcal, exhaustiveVars>>

GreedyReturn ==
    /\ pc = "greedy"
    /\ todo = <<>>
    /\ pc' = "greedy_done"
    /\ UNCHANGED <<foods, filterVars, total_kcal, result, greedyVars, exhaustiveVars>>

\* ------------------------------------------------ exhaustive_max_protein
RECURSIVE Pow2(_)
Pow2(k) == IF k = 0 THEN 1 ELSE 2 * Pow2(k - 1)

RECURSIVE BitLength(_)
BitLength(x) == IF x = 0 THEN 0 ELSE 1 + BitLength(x \div 2)

\* The conversion of the uint64_t `bits` to double in `bits < power`: exact up
\* to DoubleMantissa bits, round-to-nearest-even above.
ToDouble(x) ==
    IF BitLength(x) <= DoubleMantissa
    THEN x
    ELSE LET unit == Pow2(BitLength(x) - DoubleMantissa)
             q == x \div unit
             r == x % unit
             up == (2 * r > unit) \/ (2 * r = unit /\ q % 2 = 1)
         IN  (IF up THEN q + 1 ELSE q) * unit

\* assert(n < 64), off by one (n <= 64), and as written.
AssertOffByOne(n) == n <= AssertLimit

AssertHolds(n) == n < AssertLimit

\* bits < power, with power = pow(2, n)
LoopContinues(mask, n) == ToDouble(mask) < Pow2(n)

\* The inner loop: foods[j] is pushed iff ((bits >> j) & 1) == 1, j = 0..n-1.
RECURSIVE CandidateFrom(_, _, _)
CandidateFrom(fv, mask, j) ==
    IF j >= Len(fv)
    THEN <<>>
    ELSE (IF (mask \div Pow2(j)) % 2 = 1 THEN <<fv[j + 1]>> ELSE <<>>)
         \o CandidateFrom(fv, mask, j + 1)

Candidate(fv, mask) == CandidateFrom(fv, mask, 0)

\* The feasibility test letting one calorie too many through, and as written.
WithinBudgetPlusOne(cand_calories, budget) == cand_calories <= budget + 1

\* cand_calories <= total_kcal
WithinBudget(cand_calories, budget) == cand_calories <= budget

\* The replacement test that never replaces a recorded best, and as written.
ImprovesOnlyEmpty(b, cand_protein, best_protein) == b = <<>>

\* best->empty() || cand_protein > best_protein
Improves(b, cand_protein, best_protein) == b = <<>> \/ cand_protein > best_protein

CallExhaustive ==
    /\ pc = "idle"
    /\ \E b \in Budgets : total_kcal' = b
    /\ bits' = 0
    /\ best' = <<>>
    /\ pc' = IF AssertHolds(Len(foods)) THEN "exhaustive" ELSE "assert_failed"
    /\ UNCHANGED <<foods, filterVars, result, greedyVars>>

ExhaustiveStep ==
    /\ pc = "exhaustive"
    /\ LoopContinues(bits, Len(foods))
    /\ LET candidate == Candidate(foods, bits)
           cand_calories == SumKcal(candidate)
           cand_protein == SumProtein(candidate)
           best_protein == SumProtein(best)
       IN  best' = IF /\ WithinBudget(cand_calories, total_kcal)
                      /\ Improves(best, cand_protein, best_protein)
                   THEN candidate
                   ELSE best
    /\ bits' = bits + 1
    /\ UNCHANGED <<foods, pc, filterVars, total_kcal, result, greedyVars>>

ExhaustiveReturn ==
    /\ pc = "exhaustive"
    /\ ~LoopContinues(bits, Len(foods))
    /\ pc' = "exhaustive_done"
    /\ UNCHANGED <<foods, filterVars, total_kcal, result, greedyVars, exhaustiveVars>>

\* ----------------------------------------------------------- the caller
\* The caller takes the returned vector and is free to call again.  An
\* assertion failure aborts the process: "assert_failed" has no successor.
Return ==
    /\ pc \in {"filter_done", "greedy_done", "exhaustive_done"}
    /\ pc' = "idle"
    /\ min_kcal' = 0 /\ max_kcal' = 0 /\ total_size' = 0 /\ pos' = 1
    /\ total_kcal' = 0
    /\ todo' = <<>> /\ result' = <<>> /\ result_cal' = 0 /\ iters' = 0
    /\ bits' = 0 /\ best' = <<>>
    /\ UNCHANGED foods

\* One specification per function: each is the caller calling that function on
\* `foods`, any number of times, with any arguments.
NextFilter ==
    \/ CallFilter
    \/ FilterStep
    \/ FilterReturn
    \/ Return

NextGreedy ==
    \/ CallGreedy
    \/ GreedyStep
    \/ GreedyReturn
    \/ Return

NextExhaustive ==
    \/ CallExhaustive
    \/ ExhaustiveStep
    \/ ExhaustiveReturn
    \/ Return

SpecFilter == Init /\ [][NextFilter]_vars

SpecGreedy == Init /\ [][NextGreedy]_vars

SpecExhaustive == Init /\ [][NextExhaustive]_vars

\* The code is single-threaded and synchronous: a started call runs on.
FairSpecGreedy == SpecGreedy /\ WF_vars(NextGreedy)

\* ======================================================================
\* Properties.  The definitions below describe what is claimed of the code;
\* they enumerate subsets and matches on their own, not through the
\* operators the actions use.
\* ======================================================================
Indices == 1..Len(foods)

RECURSIVE KcalOf(_)
KcalOf(S) == IF S = {} THEN 0
             ELSE LET i == CHOOSE x \in S : TRUE IN foods[i].kcal + KcalOf(S \ {i})

RECURSIVE ProteinOf(_)
ProteinOf(S) == IF S = {} THEN 0
                ELSE LET i == CHOOSE x \in S : TRUE IN foods[i].protein_g + ProteinOf(S \ {i})

\* How often Record r occurs in the vector fv.
Occurrences(fv, r) == Cardinality({ i \in 1..Len(fv) : fv[i] = r })

Ids(fv) == { fv[i].id : i \in 1..Len(fv) }

\* The index set a mask designates: index j (1-based) iff bit j-1 is set.
MaskSet(m) == { j \in Indices : (m \div (2 ^ (j - 1))) % 2 = 1 }

C2_GreedyResultIsSubset ==
    pc \in {"greedy", "greedy_done"} =>
        \A i \in 1..Len(result) :
            /\ result[i] \in Range(foods)
            /\ Occurrences(result, result[i]) <= Occurrences(foods, result[i])

\* ------------------------------------------------------------------- C3
\* C3 as stated: for every budget, the calories of greedy_max_protein's
\* (partial or final) result sum to <= total_kcal.
C3_GreedyWithinBudget_AnyBudget ==
    pc \in {"greedy", "greedy_done"} => SumKcal(result) <= total_kcal

\* C3 amended: for every budget total_kcal >= 0 the calories of the partial
\* and of the final result of greedy_max_protein sum to <= total_kcal (and
\* result_cal is that sum); for a negative budget the result stays empty.
C3_GreedyWithinBudget ==
    pc \in {"greedy", "greedy_done"} =>
        /\ result_cal = SumKcal(result)
        /\ IF total_kcal >= 0 THEN SumKcal(result) <= total_kcal ELSE result = <<>>

\* A finished run that used the whole budget and had to reject a Record.
C3_Witness ==
    /\ pc = "greedy_done"
    /\ total_kcal >= 1
    /\ SumKcal(result) = total_kcal
    /\ Len(result) >= 2
    /\ Len(result) < Len(foods)

\* ------------------------------------------------------------------- C4
\* C4 as stated: for every budget, the calories of the subset returned by
\* exhaustive_max_protein (n < 64) sum to <= total_kcal.
C4_ExhaustiveWithinBudget_AnyBudget ==
    pc = "exhaustive_done" => SumKcal(best) <= total_kcal

\* C4 amended: for every budget total_kcal >= 0 the calories of the subset
\* returned by exhaustive_max_protein (n < 64) sum to <= total_kcal; for a
\* negative budget the returned subset is empty.
C4_ExhaustiveWithinBudget ==
    pc = "exhaustive_done" =>
        IF total_kcal >= 0 THEN SumKcal(best) <= total_kcal ELSE best = <<>>

\* A finished search that returned a subset using the whole budget while the
\* full candidate set does not fit.
C4_Witness ==
    /\ pc = "exhaustive_done"
    /\ total_kcal >= 1
    /\ best # <<>>
    /\ SumKcal(best) = total_kcal
    /\ KcalOf(Indices) > total_kcal

\* ------------------------------------------------------------------- C5
InRange(r) == min_kcal < r.kcal /\ r.kcal <= max_kcal

\* The Records of the source in the range, in source order.
Matching == SelectSeq(foods, InRange)

FirstMatching(k) == SubSeq(Matching, 1, IF k < Len(Matching) THEN k ELSE Len(Matching))

NoRecordAdmitted == foods = <<>> \/ \A r \in Range(foods) : r.kcal > total_kcal

\* C6: when the candidate sequence is empty or every candidate's calories
\* exceed total_kcal, greedy_max_protein and exhaustive_max_protein both
\* return an empty result.
C6_NoSolutionIsEmpty ==
    /\ (pc = "greedy_done" /\ NoRecordAdmitted) => result = <<>>
    /\ (pc = "exhaustive_done" /\ NoRecordAdmitted) => best = <<>>

\* ------------------------------------------------------------------- C7
\* C7: exhaustive_max_protein on n >= 64 candidates ends in the assertion
\* failure with no mask evaluated and no subset recorded, and never runs its
\* loop or returns; on n < 64 candidates the assertion never fails.
C7_Precondition ==
    /\ pc = "assert_failed" => (Len(foods) >= 64 /\ bits = 0 /\ best = <<>>)
    /\ pc \in {"exhaustive", "exhaustive_done"} => Len(foods) < 64

\* The call on exactly 64 candidates has failed its assertion.
C7_Witness == pc = "assert_failed" /\ Len(foods) = 64

\* ------------------------------------------------------------------- C8
FeasibleMasks == { m \in 0..((2 ^ Len(foods)) - 1) : KcalOf(MaskSet(m)) <= total_kcal }

TopMasks == { m \in FeasibleMasks :
                \A k \in FeasibleMasks : ProteinOf(MaskSet(k)) <= ProteinOf(MaskSet(m)) }

SmallestTopMask == CHOOSE m \in TopMasks : \A k \in TopMasks : m <= k

\* C8: for total_kcal >= 0 the subset exhaustive_max_protein returns is the
\* one of smallest mask among the feasible subsets of maximal protein (the
\* empty subset of mask 0 when no feasible subset has protein > 0).
C8_SmallestMaskWins ==
    (pc = "exhaustive_done" /\ total_kcal >= 0) =>
        /\ Ids(best) = MaskSet(SmallestTopMask)
        /\ Len(best) = Cardinality(MaskSet(SmallestTopMask))

\* ------------------------------------------------------------------- C9
EarliestMaxIndex(fv) ==
    CHOOSE i \in 1..Len(fv) :
        /\ \A j \in 1..Len(fv) : fv[j].protein_g <= fv[i].protein_g
        /\ \A j \in 1..(i - 1) : fv[j].protein_g < fv[i].protein_g

Without(fv, i) == [j \in 1..(Len(fv) - 1) |-> IF j < i THEN fv[j] ELSE fv[j + 1]]

\* C9: every iteration of greedy_max_protein removes from the working set
\* exactly the earliest Record of greatest protein, whether or not it appends
\* anything to the result; a Record removed in an earlier iteration is not in
\* the working set afterwards and is not the Record appended.
C9_GreedyRemovesEarliestMax ==
    [][ (pc = "greedy" /\ iters' = iters + 1) =>
          /\ todo' = Without(todo, EarliestMaxIndex(todo))
          /\ \A r \in Range(foods) \ Range(todo) :
                /\ r \notin Range(todo')
                /\ (result' # result => result'[Len(result')] # r) ]_vars

\* Mid-run: a Record was removed and rejected, and the working set holds two
\* Records tied for the greatest protein.
C9_Witness ==
    /\ pc = "greedy"
    /\ iters >= 1
    /\ Len(result) < iters
    /\ Len(todo) = 2
    /\ todo[1].protein_g = 1
    /\ todo[2].protein_g = 1

\* ------------------------------------------------------------------ C10
\* C10: greedy_max_protein terminates; each iteration shrinks the working set
\* by exactly one Record, the loop ends after exactly |candidates| iterations
\* and the result holds at most |candidates| Records.
C10_GreedyTerminates ==
    /\ [](pc = "greedy" => iters + Len(todo) = Len(foods))
    /\ [](pc = "greedy_done" => (iters = Len(foods) /\ Len(result) <= Len(foods)))
    /\ [][iters' = iters + 1 => Len(todo') = Len(todo) - 1]_vars
    /\ (pc = "greedy" ~> pc = "greedy_done")

\* A finished run over three candidates, the first of which the scan did not
\* pick first.
C10_Witness ==
    /\ pc = "greedy_done"
    /\ Len(foods) = 3
    /\ iters = 3
    /\ foods[1].protein_g < foods[2].protein_g

====
